---- MODULE Spec2Model ----
(***************************************************************************)
(* zoho-mail-cli: the Config store, the pdauth bridge (lib/auth), the API  *)
(* client (lib/client) and the command layer (commands), as a state        *)
(* machine.  One command run is one process: it starts from the persisted  *)
(* Config, performs its external invocations, prints, and exits.           *)
(*                                                                         *)
(* Optional JavaScript values (undefined / null) are modelled as sequences *)
(* of length at most one: << >> is absent, <<v>> is the value v.           *)
(***************************************************************************)
EXTENDS Integers, Sequences, FiniteSets, TLC

VARIABLES
  config,   \* the persisted Config record (conf store on disk)
  run,      \* the last command run: command, options, trace, exit code
  lib       \* the last direct library call (specification SpecLib)

vars == <<config, run, lib>>

(***************************************************************************)
(* Bounds of the model.                                                    *)
(***************************************************************************)
\* accounts listed in one `pdauth status --json` output
MaxAccounts == 2
\* the longest connect output tried, in symbols
MaxOutput == 5

(***************************************************************************)
(* JavaScript helpers.                                                     *)
(***************************************************************************)
None == << >>
Some(v) == <<v>>
\* truthiness of an optional string: undefined and "" are falsy
Truthy(o) == o # None /\ o[1] # ""

(***************************************************************************)
(* lib/config.ts                                                           *)
(***************************************************************************)
validRegions == <<"zoho.com", "zoho.eu", "zoho.in", "zoho.com.au", "zoho.jp">>

Defaults ==
  [region |-> "zoho.com", accountId |-> "", userId |-> "", defaultFolder |-> "Inbox"]

NoUpdates == [region |-> None, accountId |-> None, userId |-> None, defaultFolder |-> None]

\* one entry of the run trace
Event(t, k, a) == [t |-> t, k |-> k, a |-> a]
Log(s, t, k, a) == [s EXCEPT !.ev = Append(@, Event(t, k, a))]

\* sequencing: x is computed once and handed to what follows
Then(x, F(_)) == F(x)

\* a value returned or an error thrown by a call
Return(v) == [kind |-> "return", val |-> v]
Throw(m) == [kind |-> "throw", val |-> m]

getConfig(s) == [s |-> Log(s, "cfg", "read", ""), v |-> s.cfg]

\* config.set(field, value) for each field that is not undefined
setField_truthy(cfg, updates, f) ==
  IF updates[f] # None /\ updates[f][1] # "" THEN [cfg EXCEPT ![f] = updates[f][1]] ELSE cfg

setField(cfg, updates, f) == IF updates[f] # None THEN [cfg EXCEPT ![f] = updates[f][1]] ELSE cfg

setConfig(s, updates) ==
  Log([s EXCEPT !.cfg =
         setField(setField(setField(setField(@, updates, "region"), updates, "accountId"),
                           updates, "userId"), updates, "defaultFolder")],
      "cfg", "write", "")

clearConfig(s) == Log([s EXCEPT !.cfg = Defaults], "cfg", "clear", "")

isConfigured_either(s) ==
  Then(getConfig(s), LAMBDA g : [s |-> g.s, v |-> (g.v.accountId # "" \/ g.v.userId # "")])

isConfigured(s) ==
  Then(getConfig(s), LAMBDA g : [s |-> g.s, v |-> (g.v.accountId # "" /\ g.v.userId # "")])

(***************************************************************************)
(* lib/auth.ts: the pdauth bridge.  An external invocation is logged in    *)
(* the trace; what it printed and how it exited are inputs.                *)
(***************************************************************************)
\* the child process is started and the caller blocks until it has exited
execSync_detached(s, cmd, userId) == Log(s, "exec", cmd, userId)

execSync(s, cmd, userId) == Log(Log(s, "exec", cmd, userId), "exit", cmd, userId)

getPdauthUserId(s) ==
  Then(getConfig(s), LAMBDA g :
    [s |-> g.s, v |-> IF g.v.userId # "" THEN g.v.userId ELSE "default"])

\* PdauthAccount values a status output can list
ZohoAccount ==
  [id |-> "apn_1", name |-> "me@zoho", externalId |-> "x", healthy |-> TRUE,
   app |-> Some([nameSlug |-> "zoho_mail"])]
SickZohoAccount ==
  [id |-> "apn_2", name |-> "old@zoho", externalId |-> "x", healthy |-> FALSE,
   app |-> Some([nameSlug |-> "zoho_mail"])]
SlackAccount ==
  [id |-> "apn_3", name |-> "slack", externalId |-> "x", healthy |-> TRUE,
   app |-> Some([nameSlug |-> "slack"])]
NoAppAccount ==
  [id |-> "apn_4", name |-> "broken", externalId |-> "x", healthy |-> TRUE,
   app |-> None]

\* status.accounts.find(a => a.app.nameSlug === 'zoho_mail'): the first
\* match, null when none, a TypeError when an account met before the match
\* has no app
RECURSIVE findZoho(_)
findZoho(accounts) ==
  IF accounts = << >> THEN Return(None)
  ELSE IF Head(accounts).app = None THEN Throw("TypeError")
  ELSE IF Head(accounts).app[1].nameSlug = "zoho_mail" THEN Return(Some(Head(accounts)))
  ELSE findZoho(Tail(accounts))

\* the words of the JSON block's own text that result.includes() can see
RECURSIVE jsonWords(_)
jsonWords(accounts) ==
  IF accounts = << >> THEN {}
  ELSE {"healthy"}
       \cup (IF Head(accounts).app = None THEN {} ELSE {Head(accounts).app[1].nameSlug})
       \cup jsonWords(Tail(accounts))

\* result.includes(w) on the output of a status invocation
includes(out, w) ==
  \/ w \in out.words
  \/ /\ out.json.kind = "object"
     /\ out.json.accounts # None
     /\ w \in jsonWords(out.json.accounts[1])

\* the try block of checkZohoConnection on the --json output
statusPrimary(st1) ==
  IF st1.exit # 0 THEN Throw("ProcessError")
  ELSE IF st1.json.kind = "none" THEN Return(None)
  ELSE IF st1.json.kind = "malformed" THEN Throw("SyntaxError")
  ELSE IF st1.json.accounts = None THEN Throw("TypeError")
  ELSE findZoho(st1.json.accounts[1])

\* the inner try block: the freeform-text output
statusFallback(st2, userId) ==
  IF st2.exit # 0 THEN Throw("ProcessError")
  ELSE IF includes(st2, "zoho_mail") /\ includes(st2, "healthy")
    THEN Return(Some(
           [id |-> IF st2.acct # None THEN st2.acct[1] ELSE "unknown",
            name |-> "zoho_mail", externalId |-> userId, healthy |-> TRUE,
            app |-> Some([nameSlug |-> "zoho_mail"])]))
    ELSE Return(None)

\* the inner catch: a failure of the fallback is null as well
innerCatch_rethrows(f) == f

innerCatch(f) == IF f.kind = "throw" THEN Return(None) ELSE f

checkZohoConnection(s, st1, st2) ==
  Then(getPdauthUserId(s), LAMBDA u :
    Then(execSync(u.s, "status --json", u.v), LAMBDA s1 :
      Then(statusPrimary(st1), LAMBDA p :
        IF p.kind = "return" THEN [s |-> s1, r |-> p]
        ELSE [s |-> execSync(s1, "status", u.v),
              r |-> innerCatch(statusFallback(st2, u.v))])))

\* one whitespace-separated token of the connect output: the text before a
\* 'https://' in it, and the run of non-whitespace from 'https://' on ("" when
\* the token holds none)
Token(pre, url) == [pre |-> pre, url |-> url]

\* the output as text: its symbols are the literal 'https://', another
\* non-whitespace character, and a whitespace character
RECURSIVE joined(_)
joined(chars) == IF chars = << >> THEN "" ELSE Head(chars) \o joined(Tail(chars))

\* the whitespace-separated words of the output
RECURSIVE outputWords(_)
outputWords(chars) ==
  IF chars = << >> THEN << >>
  ELSE IF \A i \in DOMAIN chars : chars[i] # " " THEN <<chars>>
  ELSE Then(CHOOSE i \in DOMAIN chars : chars[i] = " " /\ \A j \in 1..(i - 1) : chars[j] # " ",
            LAMBDA i : <<SubSeq(chars, 1, i - 1)>> \o outputWords(SubSeq(chars, i + 1, Len(chars))))

\* 'https://' matches where at least one non-whitespace character follows it
tokenOf(w) ==
  IF \A i \in 1..(Len(w) - 1) : w[i] # "https://" THEN Token(joined(w), "")
  ELSE Then(CHOOSE i \in 1..(Len(w) - 1) :
                   w[i] = "https://" /\ \A j \in 1..(i - 1) : w[j] # "https://",
            LAMBDA i : Token(joined(SubSeq(w, 1, i - 1)), joined(SubSeq(w, i, Len(w)))))

tokenize(chars) == Then(outputWords(chars), LAMBDA ws : [k \in DOMAIN ws |-> tokenOf(ws[k])])

RECURSIVE urlMatch_last(_)
urlMatch_last(tokens) ==
  IF tokens = << >> THEN None
  ELSE IF tokens[Len(tokens)].url # "" THEN Some(tokens[Len(tokens)].url)
  ELSE urlMatch_last(SubSeq(tokens, 1, Len(tokens) - 1))

\* result.match(/(https:\/\/[^\s]+)/): the first token holding a URL
RECURSIVE urlMatch(_)
urlMatch(tokens) ==
  IF tokens = << >> THEN None
  ELSE IF Head(tokens).url # "" THEN Some(Head(tokens).url)
  ELSE urlMatch(Tail(tokens))

generateConnectLink(s, out) ==
  Then(getPdauthUserId(s), LAMBDA u :
    [s |-> execSync(u.s, "connect zoho_mail", u.v),
     r |-> IF out.exit # 0 THEN Return(None) ELSE Return(urlMatch(out.tokens))])

disconnectZoho_clears(s, out) ==
  Then(getPdauthUserId(s), LAMBDA u :
    [s |-> IF out.exit = 0
             THEN clearConfig(execSync(u.s, "disconnect zoho_mail --force", u.v))
             ELSE execSync(u.s, "disconnect zoho_mail --force", u.v),
     r |-> Return(out.exit = 0)])

disconnectZoho_alwaysTrue(s, out) ==
  Then(getPdauthUserId(s), LAMBDA u :
    [s |-> execSync(u.s, "disconnect zoho_mail --force", u.v), r |-> Return(TRUE)])

disconnectZoho(s, out) ==
  Then(getPdauthUserId(s), LAMBDA u :
    [s |-> execSync(u.s, "disconnect zoho_mail --force", u.v),
     r |-> Return(out.exit = 0)])

(***************************************************************************)
(* lib/client.ts: the API client.  Every operation but sendEmail throws    *)
(* at once; sendEmail shells out to the one MCP tool that exists.          *)
(***************************************************************************)
NotSupported(what) ==
  Throw(<<"Zoho Mail MCP integration does not support", what, "Direct API access needed.">>)

getAccounts(s) == [s |-> s, r |-> NotSupported("listing accounts")]

getFolders_viaProxy(s, accountId) ==
  [s |-> execSync(s, "proxy GET", "/folders"), r |-> Throw("ApiError")]

getFolders(s, accountId) == [s |-> s, r |-> NotSupported("listing folders")]

createFolder(s, accountId, name, parentId) ==
  [s |-> s, r |-> NotSupported("creating folders")]

deleteFolder_succeeds(s, accountId, folderId) ==
  [s |-> execSync(s, "proxy DELETE", folderId), r |-> Return(TRUE)]

deleteFolder(s, accountId, folderId) ==
  [s |-> s, r |-> NotSupported("deleting folders")]

getLabels(s, accountId) == [s |-> s, r |-> NotSupported("listing labels")]

createLabel(s, accountId, name, color) ==
  [s |-> s, r |-> NotSupported("creating labels")]

deleteLabel(s, accountId, labelId) ==
  [s |-> s, r |-> NotSupported("deleting labels")]

getEmails(s, accountId, folderId, options) ==
  [s |-> s, r |-> NotSupported("listing emails")]

getEmailContent(s, accountId, folderId, messageId) ==
  [s |-> s, r |-> NotSupported("reading emails")]

searchEmails(s, accountId, query, options) ==
  [s |-> s, r |-> NotSupported("searching emails")]

\* result.toLowerCase().includes(pat), on the words the send output holds
lowerIncludes(words, pat) ==
  CASE pat = "success" -> words \cap {"success", "Success", "successfully"} # {}
    [] pat = "sent"    -> words \cap {"sent", "Sent", "unsent"} # {}
    [] OTHER           -> FALSE

\* if (DEBUG) console.error(...)
debugLog(s, m) == IF s.DEBUG THEN Log(s, "err", "debug", m) ELSE s

sendEmail_swallows(s, accountId, options, out) ==
  Then(getPdauthUserId(s), LAMBDA u :
    [s |-> execSync(debugLog(u.s, "Command"), "call zoho_mail.zoho_mail-send-email", u.v),
     r |-> Return(out.exit = 0)])

sendEmail(s, accountId, options, out) ==
  Then(getPdauthUserId(s), LAMBDA u :
    [s |-> execSync(debugLog(u.s, "Command"), "call zoho_mail.zoho_mail-send-email", u.v),
     r |-> IF out.exit # 0 THEN Throw("Failed to send email")
           ELSE Return(lowerIncludes(out.words, "success")
                       \/ lowerIncludes(out.words, "sent"))])

(***************************************************************************)
(* The client operations the command layer imports that lib/client.ts does *)
(* not define (getAccountId, updateMessage, deleteEmail, renameFolder),    *)
(* after the proxied-request contract of the specification: one            *)
(* invocation of the proxy, data on status code 200, an error otherwise.   *)
(***************************************************************************)
\* proxyCall of lib/client.ts (called by no operation of the file): the answer
\* is what the MCP tool printed, whatever status the text carries
ProxyCallResult(success, data, err) == [success |-> success, data |-> data, error |-> err]

proxyCall(s, method, path, data, out) ==
  Then(getPdauthUserId(s), LAMBDA u :
    Then(getConfig(u.s), LAMBDA g :
      Then(IF data # None THEN debugLog(debugLog(g.s, method), "Body") ELSE debugLog(g.s, method),
           LAMBDA d :
        [s |-> execSync(debugLog(d, "Command"), "call zoho_mail.zoho_mail-send-email", u.v),
         r |-> Return(
                 IF out.exit # 0 THEN ProxyCallResult(FALSE, None, Some("ProcessError"))
                 ELSE IF out.line = "bad" THEN ProxyCallResult(FALSE, None, Some("SyntaxError"))
                 ELSE IF out.line = "object" /\ out.text # None
                   THEN ProxyCallResult(TRUE, out.text, None)
                 ELSE ProxyCallResult(FALSE, None, Some("Unexpected response format")))])))

\* The operations below are imported by the commands from lib/client.js, but
\* lib/client.ts does not define them: they follow the specification (4.2),
\* and what is shown of them is shown of the specification.
proxyRequest(s, method, path, resp) ==
  [s |-> execSync(s, "proxy " \o method, path),
   r |-> IF resp.kind = "process-error" THEN Throw("ProcessError")
         ELSE IF resp.kind = "no-json" THEN Throw("TransportError")
         ELSE IF resp.code # 200 THEN Throw("ApiError")
         ELSE Return(resp.data)]

getAccountId(s, resp) ==
  Then(proxyRequest(s, "GET", "/accounts", resp), LAMBDA p :
    IF p.r.kind = "throw" THEN p
    ELSE IF p.r.val = << >> THEN [s |-> p.s, r |-> Throw("No accounts found")]
    ELSE [s |-> p.s, r |-> Return(Head(p.r.val))])

\* the update is sent whatever ids it carries
updateMessage_unvalidated(s, accountId, messageId, options, resp) ==
  Then(proxyRequest(s, "PUT", "/updatemessage", resp), LAMBDA p :
    IF p.r.kind = "throw" THEN p ELSE [s |-> p.s, r |-> Return(TRUE)])

\* the id a mode requires is checked before anything is sent
updateMessage(s, accountId, messageId, options, resp) ==
  IF \/ options.mode = "moveToFolder" /\ ~Truthy(options.folderId)
     \/ options.mode \in {"addTag", "removeTag"} /\ ~Truthy(options.tagId)
    THEN [s |-> s, r |-> Throw("ValidationError")]
    ELSE Then(proxyRequest(s, "PUT", "/updatemessage", resp), LAMBDA p :
           IF p.r.kind = "throw" THEN p ELSE [s |-> p.s, r |-> Return(TRUE)])

deleteEmail(s, accountId, folderId, messageId, resp) ==
  Then(proxyRequest(s, "DELETE", "/messages", resp), LAMBDA p :
    IF p.r.kind = "throw" THEN p ELSE [s |-> p.s, r |-> Return(TRUE)])

renameFolder(s, accountId, folderId, newName, resp) ==
  Then(proxyRequest(s, "PUT", "/folders", resp), LAMBDA p :
    IF p.r.kind = "throw" THEN p ELSE [s |-> p.s, r |-> Return(TRUE)])

(***************************************************************************)
(* The process of one command run: s = [cfg, ev, live, code, ZOHO_DEBUG,   *)
(* DEBUG].  cfg is the Config store, ev the trace of what the run did,     *)
(* live is FALSE once process.exit was called, code is the exit code,      *)
(* ZOHO_DEBUG the environment variable and DEBUG the constant of client.ts.*)
(***************************************************************************)
NewProcess(cfg) ==
  [cfg |-> cfg, ev |-> << >>, live |-> TRUE, code |-> 0, ZOHO_DEBUG |-> FALSE, DEBUG |-> FALSE]

\* lib/client.ts is loaded by the imports of index.ts: DEBUG is computed there
\* from the environment variable, before the command line is parsed
loadClient(s, zohoDebug) == [s EXCEPT !.ZOHO_DEBUG = zohoDebug, !.DEBUG = zohoDebug]

\* the preAction hook of index.ts
preAction(s, debug) == IF debug THEN [s EXCEPT !.ZOHO_DEBUG = TRUE] ELSE s

\* a process started with ZOHO_DEBUG set or not, and --debug given or not
StartProcess(cfg, zohoDebug, debug) == preAction(loadClient(NewProcess(cfg), zohoDebug), debug)

processExit(s, c) == [s EXCEPT !.live = FALSE, !.code = c]

\* an error nothing catches: the action's promise rejects and node exits 1
Uncaught(s) == processExit(Log(s, "out", "uncaught", ""), 1)

\* lib/output.ts and the ora spinner
success(s, m) == Log(s, "out", "success", m)
error(s, m) == Log(s, "out", "error", m)
warn(s, m) == Log(s, "out", "warn", m)
info(s, m) == Log(s, "out", "info", m)
consoleLog(s, m) == Log(s, "out", "log", m)
spinnerSucceed(s, m) == Log(s, "out", "succeed", m)
spinnerFail(s, m) == Log(s, "out", "fail", m)

DefaultUser == "telegram:5439689035"

(***************************************************************************)
(* lib/output.ts: the status column of the email table.  The fields of an  *)
(* email come from the remote JSON, so a field holds a JavaScript value of *)
(* any type: [type, v] with v the value as text.                           *)
(***************************************************************************)
JsUndefined == [type |-> "undefined", v |-> ""]
JsString(x) == [type |-> "string", v |-> x]
JsBoolean(b) == [type |-> "boolean", v |-> IF b THEN "true" ELSE "false"]
JsNumber(x) == [type |-> "number", v |-> x]

\* a === b: the same type and the same value
StrictEquals(a, b) == a = b

\* truthiness of a value
JsTruthy(a) ==
  CASE a.type = "undefined" -> FALSE
    [] a.type = "string"    -> a.v # ""
    [] a.type = "boolean"   -> a.v = "true"
    [] a.type = "number"    -> a.v \notin {"0", "NaN"}

\* email.status === '0' || email.status2 === '0'
unreadIcon(email) ==
  IF StrictEquals(email.status, JsString("0")) \/ StrictEquals(email.status2, JsString("0"))
    THEN <<"unread">> ELSE << >>

\* email.flagid && email.flagid !== 'flag_not_set' && email.flagid !== '0'
flagIcon_anyFlag(email) == IF JsTruthy(email.flagid) THEN <<"flagged">> ELSE << >>

flagIcon(email) ==
  IF /\ JsTruthy(email.flagid)
     /\ ~StrictEquals(email.flagid, JsString("flag_not_set"))
     /\ ~StrictEquals(email.flagid, JsString("0"))
    THEN <<"flagged">> ELSE << >>

\* hasAtt === true || hasAtt === '1' || hasAtt === 'true'
attachmentIcon_loose(email) ==
  IF email.hasAttachment.v \in {"true", "1"} THEN <<"attachment">> ELSE << >>

attachmentIcon(email) ==
  IF \/ StrictEquals(email.hasAttachment, JsBoolean(TRUE))
     \/ StrictEquals(email.hasAttachment, JsString("1"))
     \/ StrictEquals(email.hasAttachment, JsString("true"))
    THEN <<"attachment">> ELSE << >>

\* the glyphs in the order they are appended; '-' when there is none
getEmailStatusIcon(email) ==
  Then(unreadIcon(email) \o flagIcon(email) \o attachmentIcon(email), LAMBDA icons :
    IF icons = << >> THEN <<"-">> ELSE icons)

(***************************************************************************)
(* commands/auth.ts                                                        *)
(***************************************************************************)
\* the region write both branches of login end with
loginSetRegion(s, options) ==
  IF Truthy(options.region)
    THEN setConfig(s, [NoUpdates EXCEPT !.region = options.region])
    ELSE s

\* the user id is stored only when --user is given
loginSetUser_optionOnly(s, options) ==
  IF Truthy(options.user)
    THEN setConfig(s, [NoUpdates EXCEPT !.userId = options.user])
    ELSE s

\* lines 26-31: the user id is stored before anything is checked
loginSetUser(s, options) ==
  IF Truthy(options.user)
    THEN setConfig(s, [NoUpdates EXCEPT !.userId = options.user])
    ELSE Then(getConfig(s), LAMBDA g :
           IF g.v.userId = ""
             THEN setConfig(g.s, [NoUpdates EXCEPT !.userId = Some(DefaultUser)])
             ELSE g.s)

\* lines 35-46: already connected
loginConnected(s, existing, options) ==
  Then(getPdauthUserId(consoleLog(spinnerSucceed(s, "Already connected to Zoho Mail"),
                                  existing.name)), LAMBDA u :
    Then(loginSetRegion(consoleLog(u.s, u.v), options), LAMBDA s4 :
      IF Truthy(options.region) THEN info(s4, "Region set") ELSE s4))

authLogin_linkFirst(s0, options, env) ==
  Then(generateConnectLink(loginSetUser(s0, options), env.connect), LAMBDA l :
    IF l.r.val = None
      THEN processExit(spinnerFail(l.s, "Failed to generate OAuth link"), 1)
      ELSE loginSetRegion(consoleLog(l.s, l.r.val[1]), options))

authLogin(s0, options, env) ==
  Then(checkZohoConnection(loginSetUser(s0, options), env.st1, env.st2), LAMBDA c :
    IF c.r.kind = "throw" THEN Uncaught(c.s)
    ELSE IF c.r.val # None THEN loginConnected(c.s, c.r.val[1], options)
    ELSE Then(generateConnectLink(c.s, env.connect), LAMBDA l :
           IF l.r.val = None
             THEN processExit(
                    consoleLog(error(spinnerFail(l.s, "Failed to generate OAuth link"),
                                     "Make sure pdauth is installed and configured"),
                               "Run: npm install -g pdauth && pdauth config"), 1)
             ELSE loginSetRegion(consoleLog(l.s, l.r.val[1]), options)))

authStatus_requiresAuth(s0, options, env) ==
  Then(checkZohoConnection(s0, env.st1, env.st2), LAMBDA c :
    IF c.r.val = None THEN processExit(error(c.s, "Not connected to Zoho Mail"), 1)
    ELSE Then(getConfig(c.s), LAMBDA g :
           Log(g.s, "out", "json",
               [connected |-> TRUE, userId |-> g.v.userId,
                region |-> g.v.region, accountId |-> g.v.accountId])))

authStatus(s0, options, env) ==
  Then(checkZohoConnection(s0, env.st1, env.st2), LAMBDA c :
    IF c.r.kind = "throw" THEN Uncaught(c.s)
    ELSE Then(getConfig(c.s), LAMBDA g :
           IF options.json
             THEN Log(g.s, "out", "json",
                      [connected |-> c.r.val # None, userId |-> g.v.userId,
                       region |-> g.v.region, accountId |-> g.v.accountId])
             ELSE consoleLog(
                    IF c.r.val # None
                      THEN consoleLog(consoleLog(g.s, "Connected"), c.r.val[1].name)
                      ELSE consoleLog(consoleLog(g.s, "Not connected"),
                                      "Run zoho-mail auth login to connect"),
                    "Configuration")))

authLogout(s0, options, env) ==
  Then(checkZohoConnection(s0, env.st1, env.st2), LAMBDA c :
    IF c.r.kind = "throw" THEN Uncaught(c.s)
    ELSE IF c.r.val = None THEN warn(c.s, "Not currently connected to Zoho Mail")
    ELSE IF ~options.force THEN consoleLog(c.s, "Run with --force to confirm.")
    ELSE Then(disconnectZoho(c.s, env.disconnect), LAMBDA d :
           IF d.r.val
             THEN spinnerSucceed(clearConfig(d.s), "Disconnected from Zoho Mail")
             ELSE error((getPdauthUserId(spinnerFail(d.s, "Failed to disconnect"))).s,
                        "Try running: pdauth disconnect zoho_mail")))

authSetRegion_noCheck(s0, region) ==
  success(setConfig(s0, [NoUpdates EXCEPT !.region = Some(region)]), "Region set")

authSetRegion(s0, region) ==
  IF ~(\E i \in DOMAIN validRegions : validRegions[i] = region)
    THEN processExit(error(s0, "Invalid region"), 1)
    ELSE success(setConfig(s0, [NoUpdates EXCEPT !.region = Some(region)]), "Region set")

authSetAccount(s0, accountId) ==
  success(setConfig(s0, [NoUpdates EXCEPT !.accountId = Some(accountId)]), "Account ID set")

(***************************************************************************)
(* Helpers the mail, folders and labels command files each define.         *)
(***************************************************************************)
\* the command layer calling a client operation, and what came back
Api(s, op, arg) == Log(s, "api", op, arg)
Res(x, op) == [s |-> Log(x.s, x.r.kind, op, x.r.val), r |-> x.r]

requireAuth_skipped(s, env) == s

requireAuth(s, env) ==
  Then(checkZohoConnection(s, env.st1, env.st2), LAMBDA c :
    IF c.r.kind = "throw" THEN Uncaught(c.s)
    ELSE IF c.r.val = None
      THEN processExit(
             consoleLog(error(c.s, "Not connected to Zoho Mail"),
                        "Run zoho-mail auth login to connect"), 1)
      ELSE c.s)

\* try { getAccountId(); setConfig({accountId}) } of ensureAccountId; the
\* catch block is the caller's
detectAccountId(s, resp) ==
  Then(Res(getAccountId(Api(s, "getAccountId", ""), resp), "getAccountId"), LAMBDA a :
    IF a.r.kind = "return"
      THEN [s |-> setConfig(a.s, [NoUpdates EXCEPT !.accountId = Some(a.r.val)]), r |-> a.r]
      ELSE a)

\* a failed detection is reported and the command goes on without an id
ensureAccountId_continues(s, resp) ==
  Then(getConfig(s), LAMBDA g :
    IF g.v.accountId # "" THEN [s |-> g.s, v |-> g.v.accountId]
    ELSE Then(detectAccountId(g.s, resp), LAMBDA a :
           IF a.r.kind = "return" THEN [s |-> a.s, v |-> a.r.val]
           ELSE [s |-> error(a.s, "Could not detect account ID"), v |-> ""]))

\* commands/mail.ts
ensureAccountId(s, resp) ==
  Then(getConfig(s), LAMBDA g :
    IF g.v.accountId # "" THEN [s |-> g.s, v |-> g.v.accountId]
    ELSE Then(detectAccountId(g.s, resp), LAMBDA a :
           IF a.r.kind = "return" THEN [s |-> a.s, v |-> a.r.val]
           ELSE [s |-> processExit(error(a.s, "Could not detect account ID"), 1),
                 v |-> ""]))

\* the folders file with auto-detection, and the labels file: the same, with a hint
ensureAccountIdHint(s, resp) ==
  Then(getConfig(s), LAMBDA g :
    IF g.v.accountId # "" THEN [s |-> g.s, v |-> g.v.accountId]
    ELSE Then(detectAccountId(g.s, resp), LAMBDA a :
           IF a.r.kind = "return" THEN [s |-> a.s, v |-> a.r.val]
           ELSE [s |-> processExit(
                         consoleLog(error(a.s, "Could not detect account ID"),
                                    "Run zoho-mail auth set-account <accountId>"), 1),
                 v |-> ""]))

\* commands/folders.ts
requireAccountId(s) ==
  Then(getConfig(s), LAMBDA g :
    IF g.v.accountId = ""
      THEN [s |-> processExit(
                    consoleLog(error(g.s, "Account ID not set"),
                               "Run zoho-mail auth set-account <accountId>"), 1),
            v |-> ""]
      ELSE [s |-> g.s, v |-> g.v.accountId])

\* the catch block a command ends with; otherwise what follows the call
Catch(m, failure, F(_)) ==
  IF m.r.kind = "throw" THEN processExit(error(spinnerFail(m.s, failure), m.r.val), 1)
  ELSE F(m)

\* requireAuth(); const accountId = await ensureAccountId(); then the rest
Authed(s0, env, F(_)) ==
  Then(requireAuth(s0, env), LAMBDA a :
    IF ~a.live THEN a
    ELSE Then(ensureAccountId(a, env.r1), LAMBDA e : IF ~e.s.live THEN e.s ELSE F(e)))

AuthedHint(s0, env, F(_)) ==
  Then(requireAuth(s0, env), LAMBDA a :
    IF ~a.live THEN a
    ELSE Then(ensureAccountIdHint(a, env.r1), LAMBDA e : IF ~e.s.live THEN e.s ELSE F(e)))

AuthedSet(s0, env, F(_)) ==
  Then(requireAuth(s0, env), LAMBDA a :
    IF ~a.live THEN a
    ELSE Then(requireAccountId(a), LAMBDA e : IF ~e.s.live THEN e.s ELSE F(e)))

RECURSIVE findInbox(_)
findInbox(folders) ==
  IF folders = << >> THEN None
  ELSE IF Head(folders).folderType = "Inbox" THEN Some(Head(folders))
  ELSE findInbox(Tail(folders))

getInboxFolderId(s, accountId) ==
  Then(Res(getFolders(Api(s, "getFolders", accountId), accountId), "getFolders"), LAMBDA f :
    IF f.r.kind = "throw" THEN f
    ELSE Then(findInbox(f.r.val), LAMBDA inbox :
           IF inbox = None THEN [s |-> f.s, r |-> Throw("Inbox folder not found")]
           ELSE [s |-> f.s, r |-> Return(inbox[1].folderId)]))

\* folderId || await getInboxFolderId(accountId)
folderOrInbox(s, folder, accountId) ==
  IF Truthy(folder) THEN [s |-> s, r |-> Return(folder[1])]
  ELSE getInboxFolderId(s, accountId)

(***************************************************************************)
(* commands/mail.ts                                                        *)
(***************************************************************************)
mailList(s0, folderId, options, env) ==
  Authed(s0, env, LAMBDA e :
    Catch(folderOrInbox(e.s, folderId, e.v), "Failed to fetch emails", LAMBDA f :
      Catch(Res(getEmails(Api(f.s, "getEmails", f.r.val), e.v, f.r.val, options), "getEmails"),
            "Failed to fetch emails", LAMBDA m : consoleLog(m.s, "emails"))))

mailRead(s0, messageId, options, env) ==
  Authed(s0, env, LAMBDA e :
    Catch(folderOrInbox(e.s, options.folder, e.v), "Failed to fetch email", LAMBDA f :
      Catch(Res(getEmailContent(Api(f.s, "getEmailContent", messageId), e.v, f.r.val, messageId),
                "getEmailContent"),
            "Failed to fetch email", LAMBDA m : consoleLog(m.s, "email"))))

mailSearch(s0, query, options, env) ==
  Authed(s0, env, LAMBDA e :
    Catch(Res(searchEmails(Api(e.s, "searchEmails", query), e.v, query, options), "searchEmails"),
          "Search failed", LAMBDA m : consoleLog(m.s, "emails")))

mailSend_unvalidated(s0, options, env) ==
  Authed(s0, env, LAMBDA e :
    Catch(Res(sendEmail(Api(e.s, "sendEmail", options.to), e.v, options, env.send), "sendEmail"),
          "Failed to send email", LAMBDA m : spinnerSucceed(m.s, "Email sent!")))

mailSend(s0, options, env) ==
  Authed(s0, env, LAMBDA e :
    IF ~Truthy(options.to) THEN processExit(error(e.s, "--to is required"), 1)
    ELSE IF ~Truthy(options.subject) THEN processExit(error(e.s, "--subject is required"), 1)
    ELSE IF ~Truthy(options.body) THEN processExit(error(e.s, "--body is required"), 1)
    ELSE IF Truthy(options.attach)
      THEN processExit(error(e.s, "Attachments not yet supported"), 1)
    ELSE Catch(Res(sendEmail(Api(e.s, "sendEmail", options.to[1]), e.v, options, env.send),
                   "sendEmail"),
               "Failed to send email", LAMBDA m : spinnerSucceed(m.s, "Email sent!")))

\* move, flag, unflag, archive, spam, unspam, mark-read, mark-unread, label,
\* unlabel: one handler each, alike but for the mode and the id they pass
UpdateCommands ==
  { [name |-> "mail move",        mode |-> "moveToFolder", id |-> "folderId"],
    [name |-> "mail flag",        mode |-> "addFlag",      id |-> ""],
    [name |-> "mail unflag",      mode |-> "removeFlag",   id |-> ""],
    [name |-> "mail archive",     mode |-> "archive",      id |-> ""],
    [name |-> "mail spam",        mode |-> "spam",         id |-> ""],
    [name |-> "mail unspam",      mode |-> "notSpam",      id |-> ""],
    [name |-> "mail mark-read",   mode |-> "markAsRead",   id |-> ""],
    [name |-> "mail mark-unread", mode |-> "markAsUnread", id |-> ""],
    [name |-> "mail label",       mode |-> "addTag",       id |-> "tagId"],
    [name |-> "mail unlabel",     mode |-> "removeTag",    id |-> "tagId"] }

\* the options object an update command builds; id is the second argument of
\* the command line, if the command has one
updateOptions_noId(u, id) == [mode |-> u.mode, folderId |-> None, tagId |-> None]

updateOptions(u, id) ==
  [mode |-> u.mode,
   folderId |-> IF u.id = "folderId" THEN id ELSE None,
   tagId |-> IF u.id = "tagId" THEN id ELSE None]

\* commander refuses a command line that lacks a required <argument>: the
\* action does not run
missingArgument(s) == processExit(Log(s, "err", "commander", "missing required argument"), 1)

mailUpdate(s0, u, messageId, id, env) ==
  IF u.id # "" /\ id = None THEN missingArgument(s0)
  ELSE Authed(s0, env, LAMBDA e :
         Catch(Res(updateMessage(Api(e.s, "updateMessage", updateOptions(u, id)), e.v,
                                 messageId, updateOptions(u, id), env.r2), "updateMessage"),
               "Failed", LAMBDA m : spinnerSucceed(m.s, u.mode)))

mailDelete(s0, messageId, options, env) ==
  Authed(s0, env, LAMBDA e :
    IF ~options.force
      THEN consoleLog(warn(e.s, "About to delete email"), "Run with --force to confirm.")
    ELSE Catch(folderOrInbox(e.s, options.folder, e.v), "Failed to delete email", LAMBDA f :
           Catch(Res(deleteEmail(Api(f.s, "deleteEmail", messageId), e.v, f.r.val, messageId,
                                 env.r2), "deleteEmail"),
                 "Failed to delete email", LAMBDA m : spinnerSucceed(m.s, "Email deleted"))))

(***************************************************************************)
(* commands/folders.ts: the account id must already be configured.         *)
(***************************************************************************)
foldersList(s0, options, env) ==
  AuthedSet(s0, env, LAMBDA e :
    Then(Res(getFolders(Api(e.s, "getFolders", e.v), e.v), "getFolders"), LAMBDA m :
      IF m.r.kind = "throw"
        THEN processExit(
               warn(error(spinnerFail(m.s, "Failed to fetch folders"), m.r.val),
                    "The Zoho Mail MCP integration via Pipedream has limited API support."), 1)
        ELSE consoleLog(m.s, "folders")))

foldersCreate(s0, name, options, env) ==
  AuthedSet(s0, env, LAMBDA e :
    Catch(Res(createFolder(Api(e.s, "createFolder", name), e.v, name, options.parent),
              "createFolder"),
          "Failed to create folder",
          LAMBDA m : consoleLog(spinnerSucceed(m.s, "Created folder"), "folder")))

foldersDelete(s0, folderId, options, env) ==
  AuthedSet(s0, env, LAMBDA e :
    IF ~options.force
      THEN consoleLog(warn(e.s, "About to delete folder"), "Run with --force to confirm.")
    ELSE Catch(Res(deleteFolder(Api(e.s, "deleteFolder", folderId), e.v, folderId),
                   "deleteFolder"),
               "Failed to delete folder", LAMBDA m : spinnerSucceed(m.s, "Folder deleted")))

\* rename, move and mark-read: not implemented, after the two checks
foldersUnimplemented(s0, what, env) ==
  AuthedSet(s0, env, LAMBDA e :
    processExit(
      warn(error(e.s, what), "The Zoho Mail MCP integration has limited functionality."), 1))

foldersEmpty(s0, folderId, options, env) ==
  AuthedSet(s0, env, LAMBDA e :
    IF ~options.force
      THEN consoleLog(warn(e.s, "About to empty folder"), "Run with --force to confirm.")
    ELSE processExit(
           warn(error(e.s, "Folder emptying requires direct API access"),
                "The Zoho Mail MCP integration has limited functionality."), 1))

(***************************************************************************)
(* The other folders command file of the repository (unnamed/part_000):    *)
(* the same commands, with the account id auto-detected when not set.      *)
(***************************************************************************)
foldersListDetect(s0, options, env) ==
  AuthedHint(s0, env, LAMBDA e :
    Catch(Res(getFolders(Api(e.s, "getFolders", e.v), e.v), "getFolders"),
          "Failed to fetch folders", LAMBDA m : consoleLog(m.s, "folders")))

foldersCreateDetect(s0, name, options, env) ==
  AuthedHint(s0, env, LAMBDA e :
    Catch(Res(createFolder(Api(e.s, "createFolder", name), e.v, name, options.parent),
              "createFolder"),
          "Failed to create folder",
          LAMBDA m : consoleLog(spinnerSucceed(m.s, "Created folder"), "folder")))

foldersDeleteDetect(s0, folderId, options, env) ==
  AuthedHint(s0, env, LAMBDA e :
    IF ~options.force
      THEN consoleLog(warn(e.s, "About to delete folder"), "Run with --force to confirm.")
    ELSE Catch(Res(deleteFolder(Api(e.s, "deleteFolder", folderId), e.v, folderId),
                   "deleteFolder"),
               "Failed to delete folder", LAMBDA m : spinnerSucceed(m.s, "Folder deleted")))

foldersRenameDetect(s0, folderId, newName, env) ==
  AuthedHint(s0, env, LAMBDA e :
    Catch(Res(renameFolder(Api(e.s, "renameFolder", folderId), e.v, folderId, newName, env.r2),
              "renameFolder"),
          "Failed to rename folder", LAMBDA m : spinnerSucceed(m.s, "Folder renamed")))

\* move and mark-read: not implemented, after the two checks
foldersUnimplementedDetect(s0, what, env) ==
  AuthedHint(s0, env, LAMBDA e : processExit(error(e.s, what), 1))

foldersEmptyDetect(s0, folderId, options, env) ==
  AuthedHint(s0, env, LAMBDA e :
    IF ~options.force
      THEN consoleLog(warn(e.s, "About to empty folder"), "Run with --force to confirm.")
    ELSE processExit(error(e.s, "Folder emptying not yet implemented"), 1))

(***************************************************************************)
(* commands/labels.ts (the second half of lib/output.ts as given)          *)
(***************************************************************************)
labelsList(s0, options, env) ==
  AuthedHint(s0, env, LAMBDA e :
    Catch(Res(getLabels(Api(e.s, "getLabels", e.v), e.v), "getLabels"),
          "Failed to fetch labels", LAMBDA m : consoleLog(m.s, "labels")))

labelsCreate(s0, name, options, env) ==
  AuthedHint(s0, env, LAMBDA e :
    Catch(Res(createLabel(Api(e.s, "createLabel", name), e.v, name, options.color),
              "createLabel"),
          "Failed to create label",
          LAMBDA m : consoleLog(spinnerSucceed(m.s, "Created label"), "label")))

labelsUpdate(s0, labelId, options, env) ==
  AuthedHint(s0, env, LAMBDA e :
    IF ~Truthy(options.name) /\ ~Truthy(options.color)
      THEN processExit(error(e.s, "Provide at least --name or --color to update"), 1)
      ELSE processExit(error(e.s, "Label updating not yet implemented"), 1))

labelsDelete(s0, labelId, options, env) ==
  AuthedHint(s0, env, LAMBDA e :
    IF ~options.force
      THEN consoleLog(warn(e.s, "About to delete label"), "Run with --force to confirm.")
    ELSE Catch(Res(deleteLabel(Api(e.s, "deleteLabel", labelId), e.v, labelId), "deleteLabel"),
               "Failed to delete label", LAMBDA m : spinnerSucceed(m.s, "Label deleted")))

(***************************************************************************)
(* What the outside world can answer: the inputs of a run.                 *)
(***************************************************************************)
SeqsUpTo(S, n) == UNION {[1..k -> S] : k \in 0..n}

StatusOut(exit, words, acct, json) ==
  [exit |-> exit, words |-> words, acct |-> acct, json |-> json]
JsonNone == [kind |-> "none", accounts |-> None]            \* no {...} in the output
JsonBad == [kind |-> "malformed", accounts |-> None]        \* {...} that does not parse
JsonNoAccounts == [kind |-> "object", accounts |-> None]    \* an object without accounts
JsonObj(accounts) == [kind |-> "object", accounts |-> Some(accounts)]

AccountKinds == {ZohoAccount, SickZohoAccount, SlackAccount, NoAppAccount}
JsonValues ==
  {JsonNone, JsonBad, JsonNoAccounts} \cup {JsonObj(a) : a \in SeqsUpTo(AccountKinds, MaxAccounts)}
StatusWords == {"zoho_mail", "healthy"}

ExitFailure == StatusOut(1, {}, None, JsonNone)
StatusJsonOutputs ==
  {ExitFailure} \cup {StatusOut(0, w, None, j) : w \in SUBSET StatusWords, j \in JsonValues}
StatusTextOutputs ==
  {ExitFailure}
  \cup {StatusOut(0, w, a, JsonNone) : w \in SUBSET StatusWords, a \in {None, Some("apn_9")}}

\* the status answers the command runs are tried with: <<--json output, text output>>
CmdStatus ==
  { <<StatusOut(0, {}, None, JsonObj(<<SlackAccount, ZohoAccount>>)), ExitFailure>>,
    <<StatusOut(0, {}, None, JsonObj(<<SlackAccount>>)), ExitFailure>>,
    <<ExitFailure, StatusOut(0, StatusWords, Some("apn_9"), JsonNone)>>,
    <<StatusOut(0, StatusWords, None, JsonNone), StatusOut(0, StatusWords, None, JsonNone)>>,
    <<ExitFailure, ExitFailure>> }

ConnectOutputs ==
  { [exit |-> 1, tokens |-> << >>],
    [exit |-> 0, tokens |-> <<Token("error", "")>>],
    [exit |-> 0, tokens |-> <<Token("Open", ""), Token("", "https://pd.link/1")>>] }

DisconnectOutputs == {[exit |-> 0], [exit |-> 1]}

SendOutputs ==
  {[exit |-> 1, words |-> {}]}
  \cup {[exit |-> 0, words |-> w] : w \in {{}, {"Success"}, {"sent"}, {"error"}}}

ProxyResponses ==
  { [kind |-> "process-error", code |-> 0, data |-> << >>],
    [kind |-> "no-json", code |-> 0, data |-> << >>],
    [kind |-> "envelope", code |-> 500, data |-> << >>],
    [kind |-> "envelope", code |-> 200, data |-> << >>],
    [kind |-> "envelope", code |-> 200, data |-> <<"A1">>] }

NoEnv ==
  [st1 |-> ExitFailure, st2 |-> ExitFailure,
   connect |-> [exit |-> 1, tokens |-> << >>], disconnect |-> [exit |-> 1],
   send |-> [exit |-> 1, words |-> {}], zohoDebug |-> FALSE,
   r1 |-> [kind |-> "process-error", code |-> 0, data |-> << >>],
   r2 |-> [kind |-> "process-error", code |-> 0, data |-> << >>]]

StatusEnv(st) == [NoEnv EXCEPT !.st1 = st[1], !.st2 = st[2]]

\* command-line values
UserOpts == {None, Some(""), Some("u1")}
RegionOpts == {None, Some("zoho.eu"), Some("zoho.org")}
RegionArgs == {validRegions[i] : i \in DOMAIN validRegions} \cup {"zoho.org", "ZOHO.COM", ""}
AccountArgs == {"A1", ""}
FolderOpts == {None, Some("F1")}

(***************************************************************************)
(* The state machine: each action is one command run, from the persisted   *)
(* Config to the exit of the process.                                      *)
(***************************************************************************)
NoRun ==
  [cmd |-> "none", opts |-> << >>, env |-> << >>, start |-> Defaults, ev |-> << >>, code |-> 0]
NoLib == [fn |-> "none", in |-> << >>, s |-> NewProcess(Defaults), r |-> Return(None)]

Init ==
  /\ config = Defaults
  /\ run = NoRun
  /\ lib = NoLib

\* no process is running: the shell is at its prompt
AtPrompt == run.cmd = "none"

\* the process ends: the store keeps what it wrote; the run is on record with
\* its command line (opts) and what the outside world answered (env)
Exit(cmd, opts, env, s) ==
  /\ config' = s.cfg
  /\ run' = [cmd |-> cmd, opts |-> opts, env |-> env, start |-> config,
             ev |-> s.ev, code |-> s.code]
  /\ UNCHANGED lib

\* back at the prompt: nothing of the process survives but the Config store
Prompt ==
  /\ ~AtPrompt
  /\ run' = NoRun
  /\ UNCHANGED <<config, lib>>

AuthLogin ==
  /\ AtPrompt
  /\ \E user \in UserOpts, region \in RegionOpts, st \in CmdStatus, c \in ConnectOutputs :
       LET options == [user |-> user, region |-> region]
       IN  Exit("auth login", options, [StatusEnv(st) EXCEPT !.connect = c],
                authLogin(NewProcess(config), options, [StatusEnv(st) EXCEPT !.connect = c]))

AuthStatus ==
  /\ AtPrompt
  /\ \E json \in BOOLEAN, st \in CmdStatus :
       LET options == [json |-> json]
       IN  Exit("auth status", options, StatusEnv(st), authStatus(NewProcess(config), options, StatusEnv(st)))

AuthLogout ==
  /\ AtPrompt
  /\ \E force \in BOOLEAN, st \in CmdStatus, d \in DisconnectOutputs :
       LET options == [force |-> force]
       IN  Exit("auth logout", options, [StatusEnv(st) EXCEPT !.disconnect = d],
                authLogout(NewProcess(config), options,
                           [StatusEnv(st) EXCEPT !.disconnect = d]))

AuthSetRegion ==
  /\ AtPrompt
  /\ \E region \in RegionArgs :
       Exit("auth set-region", [region |-> region], NoEnv,
            authSetRegion(NewProcess(config), region))

AuthSetAccount ==
  /\ AtPrompt
  /\ \E accountId \in AccountArgs :
       Exit("auth set-account", [accountId |-> accountId], NoEnv,
            authSetAccount(NewProcess(config), accountId))

\* the inputs of a command that checks the connection and needs the account id
ApiEnv(st, r1, r2) == [StatusEnv(st) EXCEPT !.r1 = r1, !.r2 = r2]

MailList ==
  /\ AtPrompt
  /\ \E folderId \in FolderOpts, st \in CmdStatus, r1 \in ProxyResponses :
       LET options == [folderId |-> folderId, limit |-> "20"]
       IN  Exit("mail list", options, ApiEnv(st, r1, r1),
                mailList(NewProcess(config), folderId, options, ApiEnv(st, r1, r1)))

MailRead ==
  /\ AtPrompt
  /\ \E folder \in FolderOpts, st \in CmdStatus, r1 \in ProxyResponses :
       LET options == [folder |-> folder, messageId |-> "M1"]
       IN  Exit("mail read", options, ApiEnv(st, r1, r1),
                mailRead(NewProcess(config), "M1", options, ApiEnv(st, r1, r1)))

MailSearch ==
  /\ AtPrompt
  /\ \E folder \in FolderOpts, st \in CmdStatus, r1 \in ProxyResponses :
       LET options == [folder |-> folder, query |-> "invoice"]
       IN  Exit("mail search", options, ApiEnv(st, r1, r1),
                mailSearch(NewProcess(config), "invoice", options, ApiEnv(st, r1, r1)))

MailSend ==
  /\ AtPrompt
  /\ \E to \in {None, Some("a@b.com")}, subject \in {None, Some(""), Some("Hi")},
        body \in {None, Some("Hello")}, attach \in {None, Some(""), Some("f.pdf")},
        st \in CmdStatus, r1 \in ProxyResponses, out \in SendOutputs,
        debug \in BOOLEAN, zohoDebug \in BOOLEAN :
       LET options == [to |-> to, subject |-> subject, body |-> body, attach |-> attach,
                       debug |-> debug]
           env == [ApiEnv(st, r1, r1) EXCEPT !.send = out, !.zohoDebug = zohoDebug]
       IN  Exit("mail send", options, env,
                mailSend(StartProcess(config, zohoDebug, debug), options, env))

MailUpdate ==
  /\ AtPrompt
  /\ \E u \in UpdateCommands, st \in CmdStatus, r1 \in ProxyResponses, r2 \in ProxyResponses :
     \E id \in IF u.id = "" THEN {None} ELSE {None, Some(""), Some("X1")} :
       LET options == [messageId |-> "M1", id |-> id]
       IN  Exit(u.name, options, ApiEnv(st, r1, r2),
                mailUpdate(NewProcess(config), u, "M1", options.id, ApiEnv(st, r1, r2)))

MailDelete ==
  /\ AtPrompt
  /\ \E folder \in FolderOpts, force \in BOOLEAN,
        st \in CmdStatus, r1 \in ProxyResponses, r2 \in ProxyResponses :
       LET options == [folder |-> folder, force |-> force, messageId |-> "M1"]
       IN  Exit("mail delete", options, ApiEnv(st, r1, r2),
                mailDelete(NewProcess(config), "M1", options, ApiEnv(st, r1, r2)))

FoldersList ==
  /\ AtPrompt
  /\ \E st \in CmdStatus :
       Exit("folders list", [file |-> "folders.ts"], StatusEnv(st),
            foldersList(NewProcess(config), [json |-> FALSE], StatusEnv(st)))

FoldersCreate ==
  /\ AtPrompt
  /\ \E parent \in FolderOpts, st \in CmdStatus :
       LET options == [file |-> "folders.ts", parent |-> parent]
       IN  Exit("folders create", options, StatusEnv(st),
                foldersCreate(NewProcess(config), "Work", options, StatusEnv(st)))

FoldersDelete ==
  /\ AtPrompt
  /\ \E force \in BOOLEAN, st \in CmdStatus :
       LET options == [file |-> "folders.ts", force |-> force, folderId |-> "F1"]
       IN  Exit("folders delete", options, StatusEnv(st),
                foldersDelete(NewProcess(config), "F1", options, StatusEnv(st)))

FoldersUnimplemented ==
  /\ AtPrompt
  /\ \E c \in {"folders rename", "folders move", "folders mark-read"}, st \in CmdStatus :
       Exit(c, [file |-> "folders.ts"], StatusEnv(st),
            foldersUnimplemented(NewProcess(config), c, StatusEnv(st)))

FoldersEmpty ==
  /\ AtPrompt
  /\ \E force \in BOOLEAN, st \in CmdStatus :
       LET options == [file |-> "folders.ts", force |-> force, folderId |-> "F1"]
       IN  Exit("folders empty", options, StatusEnv(st),
                foldersEmpty(NewProcess(config), "F1", options, StatusEnv(st)))

FoldersListDetect ==
  /\ AtPrompt
  /\ \E st \in CmdStatus, r1 \in ProxyResponses :
       Exit("folders list", [file |-> "part_000"], ApiEnv(st, r1, r1),
            foldersListDetect(NewProcess(config), [json |-> FALSE], ApiEnv(st, r1, r1)))

FoldersCreateDetect ==
  /\ AtPrompt
  /\ \E parent \in FolderOpts, st \in CmdStatus, r1 \in ProxyResponses :
       LET options == [file |-> "part_000", parent |-> parent]
       IN  Exit("folders create", options, ApiEnv(st, r1, r1),
                foldersCreateDetect(NewProcess(config), "Work", options, ApiEnv(st, r1, r1)))

FoldersDeleteDetect ==
  /\ AtPrompt
  /\ \E force \in BOOLEAN, st \in CmdStatus, r1 \in ProxyResponses :
       LET options == [file |-> "part_000", force |-> force, folderId |-> "F1"]
       IN  Exit("folders delete", options, ApiEnv(st, r1, r1),
                foldersDeleteDetect(NewProcess(config), "F1", options, ApiEnv(st, r1, r1)))

FoldersRenameDetect ==
  /\ AtPrompt
  /\ \E st \in CmdStatus, r1 \in ProxyResponses, r2 \in ProxyResponses :
       Exit("folders rename", [file |-> "part_000"], ApiEnv(st, r1, r2),
            foldersRenameDetect(NewProcess(config), "F1", "Archive", ApiEnv(st, r1, r2)))

FoldersUnimplementedDetect ==
  /\ AtPrompt
  /\ \E c \in {"folders move", "folders mark-read"}, st \in CmdStatus, r1 \in ProxyResponses :
       Exit(c, [file |-> "part_000"], ApiEnv(st, r1, r1),
            foldersUnimplementedDetect(NewProcess(config), c, ApiEnv(st, r1, r1)))

FoldersEmptyDetect ==
  /\ AtPrompt
  /\ \E force \in BOOLEAN, st \in CmdStatus, r1 \in ProxyResponses :
       LET options == [file |-> "part_000", force |-> force, folderId |-> "F1"]
       IN  Exit("folders empty", options, ApiEnv(st, r1, r1),
                foldersEmptyDetect(NewProcess(config), "F1", options, ApiEnv(st, r1, r1)))

LabelsList ==
  /\ AtPrompt
  /\ \E st \in CmdStatus, r1 \in ProxyResponses :
       Exit("labels list", [json |-> FALSE], ApiEnv(st, r1, r1),
            labelsList(NewProcess(config), [json |-> FALSE], ApiEnv(st, r1, r1)))

LabelsCreate ==
  /\ AtPrompt
  /\ \E color \in {None, Some("#ff0000")}, st \in CmdStatus, r1 \in ProxyResponses :
       LET options == [color |-> color]
       IN  Exit("labels create", options, ApiEnv(st, r1, r1),
                labelsCreate(NewProcess(config), "todo", options, ApiEnv(st, r1, r1)))

LabelsUpdate ==
  /\ AtPrompt
  /\ \E name \in {None, Some("later")}, color \in {None, Some("#ff0000")},
        st \in CmdStatus, r1 \in ProxyResponses :
       LET options == [name |-> name, color |-> color]
       IN  Exit("labels update", options, ApiEnv(st, r1, r1),
                labelsUpdate(NewProcess(config), "L1", options, ApiEnv(st, r1, r1)))

LabelsDelete ==
  /\ AtPrompt
  /\ \E force \in BOOLEAN, st \in CmdStatus, r1 \in ProxyResponses :
       LET options == [force |-> force, labelId |-> "L1"]
       IN  Exit("labels delete", options, ApiEnv(st, r1, r1),
                labelsDelete(NewProcess(config), "L1", options, ApiEnv(st, r1, r1)))

Next ==
  \/ Prompt
  \/ AuthLogin
  \/ AuthStatus
  \/ AuthLogout
  \/ AuthSetRegion
  \/ AuthSetAccount
  \/ MailList
  \/ MailRead
  \/ MailSearch
  \/ MailSend
  \/ MailUpdate
  \/ MailDelete
  \/ FoldersList
  \/ FoldersCreate
  \/ FoldersDelete
  \/ FoldersUnimplemented
  \/ FoldersEmpty
  \/ FoldersListDetect
  \/ FoldersCreateDetect
  \/ FoldersDeleteDetect
  \/ FoldersRenameDetect
  \/ FoldersUnimplementedDetect
  \/ FoldersEmptyDetect
  \/ LabelsList
  \/ LabelsCreate
  \/ LabelsUpdate
  \/ LabelsDelete

Spec == Init /\ [][Next]_vars

(***************************************************************************)
(* The library called directly: one call of a function of lib/auth or      *)
(* lib/client from a Config the commands can leave behind, on every input  *)
(* of the bounded sets.                                                    *)
(***************************************************************************)
LibConfigs ==
  { Defaults,
    [Defaults EXCEPT !.userId = "u1"],
    [Defaults EXCEPT !.userId = DefaultUser, !.accountId = "A1", !.region = "zoho.eu"] }

\* the operations of lib/client.ts that are not sendEmail
GatedOperations ==
  { "getAccounts", "getFolders", "createFolder", "deleteFolder", "getLabels",
    "createLabel", "deleteLabel", "getEmails", "getEmailContent", "searchEmails" }

\* the call op(accountId, id, ...) of the client
clientCall(op, s, accountId, id) ==
  CASE op = "getAccounts"     -> getAccounts(s)
    [] op = "getFolders"      -> getFolders(s, accountId)
    [] op = "createFolder"    -> createFolder(s, accountId, id, None)
    [] op = "deleteFolder"    -> deleteFolder(s, accountId, id)
    [] op = "getLabels"       -> getLabels(s, accountId)
    [] op = "createLabel"     -> createLabel(s, accountId, id, None)
    [] op = "deleteLabel"     -> deleteLabel(s, accountId, id)
    [] op = "getEmails"       -> getEmails(s, accountId, id, [limit |-> 20])
    [] op = "getEmailContent" -> getEmailContent(s, accountId, id, "M1")
    [] op = "searchEmails"    -> searchEmails(s, accountId, id, [limit |-> 50])

InitLib ==
  /\ config \in LibConfigs
  /\ run = NoRun
  /\ lib = NoLib

Idle == lib.fn = "none"

\* the call returned or threw: x = [s, r]
Called(fn, in, x) ==
  /\ lib' = [fn |-> fn, in |-> in, s |-> x.s, r |-> x.r]
  /\ config' = x.s.cfg
  /\ UNCHANGED run

LibReturn ==
  /\ ~Idle
  /\ lib' = NoLib
  /\ UNCHANGED <<config, run>>

LibCheckConnection ==
  /\ Idle
  /\ \E st1 \in StatusJsonOutputs, st2 \in StatusTextOutputs :
       Called("checkZohoConnection", <<st1, st2>>,
              checkZohoConnection(NewProcess(config), st1, st2))

LibClient ==
  /\ Idle
  /\ \E op \in GatedOperations, accountId \in {"", "A1"}, id \in {"", "F1", "Work"} :
       Called(op, <<accountId, id>>, clientCall(op, NewProcess(config), accountId, id))

\* lib/config.ts called directly: a write or a clear, and the read that follows
ConfigFields == {"region", "accountId", "userId", "defaultFolder"}
ConfigValues == {"", "X"}

thenGetConfig(s) == Then(getConfig(s), LAMBDA g : [s |-> g.s, r |-> Return(g.v)])

LibSetConfig ==
  /\ Idle
  /\ \E f \in ConfigFields, v \in ConfigValues :
       Called("setConfig", [f |-> f, v |-> v, before |-> config],
              thenGetConfig(setConfig(NewProcess(config), [NoUpdates EXCEPT ![f] = Some(v)])))

LibClearConfig ==
  /\ Idle
  /\ Called("clearConfig", [before |-> config], thenGetConfig(clearConfig(NewProcess(config))))

\* what pdauth call printed: no line starting with a brace, a line that is not
\* JSON, an object without content text, or an object whose content text is a
\* Zoho response envelope
Envelope(code, description, data) == [code |-> code, description |-> description, data |-> data]
ProxyCallOutputs ==
  { [exit |-> 1, line |-> "none", text |-> None],
    [exit |-> 0, line |-> "none", text |-> None],
    [exit |-> 0, line |-> "bad", text |-> None],
    [exit |-> 0, line |-> "object", text |-> None],
    [exit |-> 0, line |-> "object", text |-> Some(Envelope(200, "success", "D1"))],
    [exit |-> 0, line |-> "object", text |-> Some(Envelope(404, "Not Found", ""))],
    [exit |-> 0, line |-> "object", text |-> Some(Envelope(500, "Internal Error", ""))] }

LibSendEmail ==
  /\ Idle
  /\ \E out \in SendOutputs, zohoDebug \in BOOLEAN :
       Called("sendEmail", [out |-> out, zohoDebug |-> zohoDebug],
              sendEmail(loadClient(NewProcess(config), zohoDebug), "A1",
                        [to |-> Some("a@b.com"), subject |-> Some("Hi"), body |-> Some("Hello")],
                        out))

LibProxyCall ==
  /\ Idle
  /\ \E method \in {"GET", "DELETE"}, data \in {None, Some("body")},
        out \in ProxyCallOutputs, zohoDebug \in BOOLEAN :
       Called("proxyCall", [method |-> method, out |-> out, zohoDebug |-> zohoDebug],
              proxyCall(loadClient(NewProcess(config), zohoDebug), method, "/api/accounts",
                        data, out))

\* the field values an email of a list answer may carry
StatusValues ==
  {JsString("0"), JsString("1"), JsString(""), JsBoolean(FALSE), JsUndefined}
Status2Values == {JsString("0"), JsString("1"), JsUndefined}
FlagValues ==
  {JsUndefined, JsString(""), JsString("flag_not_set"), JsString("0"), JsString("info")}
AttachmentValues ==
  { JsBoolean(TRUE), JsBoolean(FALSE), JsString("1"), JsString("0"), JsString("true"),
    JsString("false"), JsString("yes"), JsNumber("1"), JsUndefined }

LibStatusIcon ==
  /\ Idle
  /\ \E status \in StatusValues, status2 \in Status2Values, flagid \in FlagValues,
        hasAttachment \in AttachmentValues :
       LET email == [status |-> status, status2 |-> status2, flagid |-> flagid,
                     hasAttachment |-> hasAttachment]
       IN  Called("getEmailStatusIcon", email,
                  [s |-> NewProcess(config), r |-> Return(getEmailStatusIcon(email))])

\* what pdauth connect printed, symbol by symbol
OutputSymbols == {"https://", "x", " "}

LibConnectLink ==
  /\ Idle
  /\ \E exit \in {0, 1}, chars \in SeqsUpTo(OutputSymbols, MaxOutput) :
       Called("generateConnectLink", [exit |-> exit, chars |-> chars],
              generateConnectLink(NewProcess(config),
                                  [exit |-> exit, tokens |-> tokenize(chars)]))

LibDisconnect ==
  /\ Idle
  /\ \E out \in DisconnectOutputs :
       Called("disconnectZoho", [out |-> out, before |-> config],
              disconnectZoho(NewProcess(config), out))

LibIsConfigured ==
  /\ Idle
  /\ Called("isConfigured", [before |-> config],
            Then(isConfigured(NewProcess(config)), LAMBDA c : [s |-> c.s, r |-> Return(c.v)]))

NextLib ==
  \/ LibDisconnect
  \/ LibIsConfigured
  \/ LibConnectLink
  \/ LibStatusIcon
  \/ LibSendEmail
  \/ LibProxyCall
  \/ LibReturn
  \/ LibCheckConnection
  \/ LibClient
  \/ LibSetConfig
  \/ LibClearConfig

SpecLib == InitLib /\ [][NextLib]_vars

(***************************************************************************)
(* Properties.  What a run did is read off its trace.                      *)
(***************************************************************************)
Printed(ev, k) == \E i \in DOMAIN ev : ev[i].t = "out" /\ ev[i].k = k
PrintedMsg(ev, k, m) == \E i \in DOMAIN ev : ev[i] = Event("out", k, m)
ReportedError(ev) == Printed(ev, "error") \/ Printed(ev, "fail") \/ Printed(ev, "uncaught")
ApiCalls(ev) == {i \in DOMAIN ev : ev[i].t = "api"}
\* invocations of the proxy other than the status query of the connection check
ProxyCalls(ev) ==
  {i \in DOMAIN ev : ev[i].t = "exec" /\ ev[i].k \notin {"status --json", "status"}}
\* the connection check of the run found an active connection
Connected(r) ==
  /\ r.cmd # "none"
  /\ ~PrintedMsg(r.ev, "error", "Not connected to Zoho Mail")
FiveRegions == {"zoho.com", "zoho.eu", "zoho.in", "zoho.com.au", "zoho.jp"}

\* C1: `mail send` reports success ("Email sent!", exit 0) only if the send
\* reported success, that is only if sendEmail returned true.
C1_SendReportsSuccessOnlyOnSuccess ==
  (run.cmd = "mail send" /\ PrintedMsg(run.ev, "succeed", "Email sent!"))
    => \E i \in DOMAIN run.ev : run.ev[i] = Event("return", "sendEmail", TRUE)

\* C2: a run that printed an error or failure message exits 1; exit 0 only
\* when no error was reported.
C2_ExitOneOnReportedError ==
  (~AtPrompt /\ ReportedError(run.ev)) => run.code = 1

\* C3: with an active connection, a destructive command without --force
\* calls no client operation, invokes the proxy for nothing but the
\* connection check, leaves the Config as it was, warns and exits 0.
DestructiveCommands == {"folders delete", "folders empty", "mail delete", "labels delete"}
C3_NoForceIsNoOp ==
  (run.cmd \in DestructiveCommands /\ ~run.opts.force /\ Connected(run))
    => /\ ApiCalls(run.ev) = {}
       /\ ProxyCalls(run.ev) = {}
       /\ config = run.start
       /\ Printed(run.ev, "warn")
       /\ run.code = 0

\* C4: `folders delete <id> --force` with a connection and an account id set
ForcedFolderDelete ==
  /\ run.cmd = "folders delete"
  /\ run.opts.force
  /\ Connected(run)
  /\ run.start.accountId # ""

\* C4 as claimed: exactly one DELETE is issued for the folder, and the run
\* exits 0 when it succeeds and 1 when it fails.
C4_OneDeleteIssued ==
  ForcedFolderDelete
    => /\ Cardinality({i \in DOMAIN run.ev :
                         run.ev[i] = Event("exec", "proxy DELETE", run.opts.folderId)}) = 1
       /\ run.code \in {0, 1}

\* C4 amended: deleteFolder is called exactly once, for that folder; it
\* invokes the proxy for nothing and throws its not-supported error, so the
\* run reports the failure, exits 1 and leaves the Config as it was.
C4_DeleteCalledOnceAndRefused ==
  ForcedFolderDelete
    => /\ \E i \in DOMAIN run.ev :
            /\ ApiCalls(run.ev) = {i}
            /\ run.ev[i] = Event("api", "deleteFolder", run.opts.folderId)
       /\ ProxyCalls(run.ev) = {}
       /\ \E i \in DOMAIN run.ev :
            /\ run.ev[i].t = "throw"
            /\ run.ev[i].k = "deleteFolder"
            /\ run.ev[i].a[2] = "deleting folders"
       /\ Printed(run.ev, "fail")
       /\ run.code = 1
       /\ config = run.start

C4_Witness ==
  /\ ForcedFolderDelete
  /\ run.opts.folderId = "F1"
  /\ run.code = 1

\* C5: a run that ends on a failed external invocation leaves the Config as
\* it found it; stated on auth login, which exits 1 only when the connection
\* check found nothing and no link could be generated.
C5_FailedRunLeavesConfig ==
  (run.cmd = "auth login" /\ run.code = 1) => config = run.start

\* C6: the persisted region is always one of the five Zoho regions.
C6_RegionAlwaysValid == config.region \in FiveRegions

\* C7: `auth set-region r` stores r and exits 0 exactly when r is one of the
\* five regions; for any other r it reports an error, exits 1 and leaves
\* every field of the Config as it was.
C7_SetRegionValidates ==
  run.cmd = "auth set-region"
    => IF run.opts.region \in FiveRegions
         THEN /\ config = [run.start EXCEPT !.region = run.opts.region]
              /\ run.code = 0
              /\ ~ReportedError(run.ev)
         ELSE /\ config = run.start
              /\ run.code = 1
              /\ Printed(run.ev, "error")

C7_Witness ==
  /\ run.cmd = "auth set-region"
  /\ run.opts.region = "ZOHO.COM"
  /\ run.start.region = "zoho.jp"
  /\ run.code = 1

\* C8: checkZohoConnection never raises: whatever the two status invocations
\* do, it returns a connection record or null.
C8_CheckNeverRaises ==
  lib.fn = "checkZohoConnection"
    => /\ lib.r.kind = "return"
       /\ \/ lib.r.val = None
          \/ /\ Len(lib.r.val) = 1
             /\ lib.r.val[1].app[1].nameSlug = "zoho_mail"

\* both invocations fail, and the answer is null
C8_Witness ==
  /\ lib.fn = "checkZohoConnection"
  /\ lib.in[1].exit # 0
  /\ lib.in[2].exit # 0
  /\ lib.r = Return(None)

\* C9: whichever shape the first status invocation prints, an output that
\* reports a zoho_mail connection gives a connection record.
ReportsAsJson(out) ==
  /\ out.exit = 0
  /\ out.json.kind = "object"
  /\ out.json.accounts # None
  /\ \E i \in DOMAIN out.json.accounts[1] :
       /\ out.json.accounts[1][i].app # None
       /\ out.json.accounts[1][i].app[1].nameSlug = "zoho_mail"
ReportsAsText(out) ==
  /\ out.exit = 0
  /\ out.json.kind = "none"
  /\ {"zoho_mail", "healthy"} \subseteq out.words
C9_BothShapesTolerated ==
  (lib.fn = "checkZohoConnection" /\ (ReportsAsJson(lib.in[1]) \/ ReportsAsText(lib.in[1])))
    => lib.r.kind = "return" /\ lib.r.val # None

\* C10: every client operation but sendEmail throws at once, naming the
\* operation that is not supported, with no proxy invocation and no access
\* to the Config.
UnsupportedWhat ==
  [getAccounts |-> "listing accounts", getFolders |-> "listing folders",
   createFolder |-> "creating folders", deleteFolder |-> "deleting folders",
   getLabels |-> "listing labels", createLabel |-> "creating labels",
   deleteLabel |-> "deleting labels", getEmails |-> "listing emails",
   getEmailContent |-> "reading emails", searchEmails |-> "searching emails"]
C10_CapabilityGate ==
  lib.fn \in GatedOperations
    => /\ lib.s.ev = << >>
       /\ lib.s.cfg = config
       /\ lib.r.kind = "throw"
       /\ lib.r.val[2] = UnsupportedWhat[lib.fn]

C10_Witness ==
  /\ lib.fn = "getFolders"
  /\ lib.in = <<"A1", "">>
  /\ lib.r.kind = "throw"

\* what the connection check answers in the run: a connection or none
CheckFinds(r) ==
  (checkZohoConnection(NewProcess(r.start), r.env.st1, r.env.st2)).r.val # None
AuthCommands ==
  {"auth login", "auth status", "auth logout", "auth set-region", "auth set-account"}
ConfigWrites(ev) == {i \in DOMAIN ev : ev[i].t = "cfg" /\ ev[i].k \in {"write", "clear"}}
StatusQueries(ev) == {i \in DOMAIN ev : ev[i].t = "exec" /\ ev[i].k = "status --json"}

\* a command line commander refused for a missing argument: no command ran
Refused(r) == \E i \in DOMAIN r.ev : r.ev[i].t = "err" /\ r.ev[i].k = "commander"

\* C11: every mail, folders and labels command queries the connection before
\* any client operation and before any Config write (a command line that
\* commander refuses runs no command: nothing is called or written); when the check finds no
\* connection the run prints the 'auth login' hint and exits 1, having called
\* no client operation and having left the Config as it was.
C11_ConnectionCheckedFirst ==
  (run.cmd \notin AuthCommands \cup {"none"})
    => /\ Refused(run) => ApiCalls(run.ev) \cup ConfigWrites(run.ev) = {}
       /\ ~Refused(run)
            => \E i \in StatusQueries(run.ev) :
                 \A j \in ApiCalls(run.ev) \cup ConfigWrites(run.ev) : i < j
       /\ ~Refused(run) /\ ~CheckFinds(run)
            => /\ PrintedMsg(run.ev, "log", "Run zoho-mail auth login to connect")
               /\ run.code = 1
               /\ ApiCalls(run.ev) = {}
               /\ ConfigWrites(run.ev) = {}
               /\ config = run.start

\* a run that would have detected the account id, had it not stopped
C11_Witness ==
  /\ run.cmd = "mail delete"
  /\ run.start.accountId = ""
  /\ run.opts.force
  /\ ~CheckFinds(run)
  /\ run.code = 1

\* C12: `auth logout` clears the Config exactly when a disconnect was made
\* and succeeded: with a connection and --force there is one disconnect
\* invocation, whose success resets every field to its default and whose
\* failure leaves the Config as it was; without --force or without a
\* connection there is no disconnect invocation and the Config is as it was.
Disconnects(ev) ==
  {i \in DOMAIN ev : ev[i].t = "exec" /\ ev[i].k = "disconnect zoho_mail --force"}
C12_LogoutClearsOnSuccess ==
  run.cmd = "auth logout"
    => IF CheckFinds(run) /\ run.opts.force
         THEN /\ Cardinality(Disconnects(run.ev)) = 1
              /\ IF run.env.disconnect.exit = 0
                   THEN config = [region |-> "zoho.com", accountId |-> "",
                                  userId |-> "", defaultFolder |-> "Inbox"]
                   ELSE config = run.start
         ELSE /\ Disconnects(run.ev) = {}
              /\ config = run.start

C12_Witness ==
  /\ run.cmd = "auth logout"
  /\ run.opts.force
  /\ run.env.disconnect.exit = 0
  /\ run.start.accountId = "A1"
  /\ run.start.region # "zoho.com"
  /\ config.accountId = ""
  /\ config.region = "zoho.com"

\* C13: setConfig({f: v}) followed by getConfig() gives f = v and every
\* other field as it was; clearConfig() followed by getConfig() gives the
\* defaults, whatever was set before.
C13_ConfigRoundTrip ==
  /\ lib.fn = "setConfig"
       => /\ lib.r.kind = "return"
          /\ lib.r.val[lib.in.f] = lib.in.v
          /\ \A g \in {"region", "accountId", "userId", "defaultFolder"} \ {lib.in.f} :
               lib.r.val[g] = lib.in.before[g]
  /\ lib.fn = "clearConfig"
       => lib.r = Return([region |-> "zoho.com", accountId |-> "",
                          userId |-> "", defaultFolder |-> "Inbox"])

\* an empty string written over a value set earlier
C13_Witness ==
  /\ lib.fn = "setConfig"
  /\ lib.in.f = "accountId"
  /\ lib.in.v = ""
  /\ lib.in.before.accountId = "X"
  /\ lib.in.before.defaultFolder = "X"
  /\ lib.r.val.accountId = ""

\* C14: `auth status --json` on a fresh store, when neither status invocation
\* reports a zoho_mail connection in either shape, prints connected: false
\* and accountId: "", exits 0 without an error and writes nothing to the
\* Config.
NoConnectionReported(env) ==
  \A st \in {env.st1, env.st2} : ~ReportsAsJson(st) /\ ~ReportsAsText(st)
JsonReports(ev) == {i \in DOMAIN ev : ev[i].t = "out" /\ ev[i].k = "json"}
C14_FreshStatusNotConnected ==
  ( /\ run.cmd = "auth status"
    /\ run.opts.json
    /\ run.start = [region |-> "zoho.com", accountId |-> "",
                    userId |-> "", defaultFolder |-> "Inbox"]
    /\ NoConnectionReported(run.env) )
    => /\ \E i \in DOMAIN run.ev :
            /\ JsonReports(run.ev) = {i}
            /\ run.ev[i].a.connected = FALSE
            /\ run.ev[i].a.accountId = ""
       /\ run.code = 0
       /\ ~ReportedError(run.ev)
       /\ ConfigWrites(run.ev) = {}
       /\ config = run.start

\* the proxy cannot even be run: both status invocations fail
C14_Witness ==
  /\ run.cmd = "auth status"
  /\ run.opts.json
  /\ run.start.userId = ""
  /\ run.env.st1.exit # 0
  /\ run.env.st2.exit # 0
  /\ run.code = 0

\* the account detection of a run: its calls, its results, its failures
Detections(ev) == {i \in DOMAIN ev : ev[i].t = "api" /\ ev[i].k = "getAccountId"}
Detected(ev) == {ev[i].a : i \in {j \in DOMAIN ev : ev[j].t = "return" /\ ev[j].k = "getAccountId"}}
DetectionFailures(ev) == {i \in DOMAIN ev : ev[i].t = "throw" /\ ev[i].k = "getAccountId"}

\* C15: a `mail send` run whose command line lacks --to, --subject or --body,
\* or carries --attach
Missing(o) == o = None \/ o = <<"">>
InvalidSend ==
  /\ run.cmd = "mail send"
  /\ \/ Missing(run.opts.to)
     \/ Missing(run.opts.subject)
     \/ Missing(run.opts.body)
     \/ run.opts.attach # None
\* the same, with --attach carrying a non-empty value
RejectedSend ==
  /\ run.cmd = "mail send"
  /\ \/ Missing(run.opts.to)
     \/ Missing(run.opts.subject)
     \/ Missing(run.opts.body)
     \/ ~Missing(run.opts.attach)
ValidationMessages ==
  {"--to is required", "--subject is required", "--body is required",
   "Attachments not yet supported"}
\* the message of the first test that fails, in the order of the tests
ValidationMessageFor(o) ==
  IF Missing(o.to) THEN "--to is required"
  ELSE IF Missing(o.subject) THEN "--subject is required"
  ELSE IF Missing(o.body) THEN "--body is required"
  ELSE "Attachments not yet supported"
ReportedValidation(ev) == \E m \in ValidationMessages : PrintedMsg(ev, "error", m)
NeverSent(ev) ==
  /\ \A i \in DOMAIN ev : ~(ev[i].t = "api" /\ ev[i].k = "sendEmail")
  /\ \A i \in DOMAIN ev : ~(ev[i].t = "exec" /\ ev[i].k = "call zoho_mail.zoho_mail-send-email")

\* C15 as claimed: such a run reports a validation error and exits 1 without
\* calling sendEmail or invoking the send capability.
C15_InvalidSendReportsValidation ==
  InvalidSend => (ReportedValidation(run.ev) /\ run.code = 1 /\ NeverSent(run.ev))

\* C15 amended: a `mail send` run that lacks --to, --subject or --body, or
\* carries a non-empty --attach, reports an error and exits 1 without calling
\* sendEmail or invoking the send capability.  The connection check and the
\* account id step come first: with no connection the error is 'Not
\* connected to Zoho Mail', with no stored account id and a failed detection
\* it is 'Could not detect account ID', and otherwise it is the validation
\* message of the first option found wanting.  An empty --attach value
\* counts as no --attach: with the other options valid, a connection and an
\* account id, sendEmail is called.
C15_InvalidSendNeverSends ==
  /\ RejectedSend
       => /\ ReportedError(run.ev)
          /\ run.code = 1
          /\ NeverSent(run.ev)
          /\ ~CheckFinds(run)
               => /\ PrintedMsg(run.ev, "error", "Not connected to Zoho Mail")
                  /\ ~ReportedValidation(run.ev)
          /\ (CheckFinds(run) /\ run.start.accountId = "" /\ Detected(run.ev) = {})
               => /\ DetectionFailures(run.ev) # {}
                  /\ PrintedMsg(run.ev, "error", "Could not detect account ID")
                  /\ ~ReportedValidation(run.ev)
          /\ (CheckFinds(run) /\ (run.start.accountId # "" \/ Detected(run.ev) # {}))
               => \A m \in ValidationMessages :
                    PrintedMsg(run.ev, "error", m) <=> m = ValidationMessageFor(run.opts)
  /\ ( /\ run.cmd = "mail send"
       /\ ~RejectedSend
       /\ CheckFinds(run)
       /\ run.start.accountId # "" \/ Detected(run.ev) # {} )
       => /\ ~ReportedValidation(run.ev)
          /\ Cardinality({i \in ApiCalls(run.ev) : run.ev[i].k = "sendEmail"}) = 1

C15_Witness ==
  /\ run.cmd = "mail send"
  /\ run.opts.to = None
  /\ run.opts.subject = <<"Hi">>
  /\ CheckFinds(run)
  /\ run.start.accountId = "A1"
  /\ PrintedMsg(run.ev, "error", "--to is required")
  /\ run.code = 1

Execs(ev) == {i \in DOMAIN ev : ev[i].t = "exec"}

\* C16: a call of sendEmail invokes the proxy exactly once; when that
\* invocation fails the call throws, and otherwise it returns a boolean.
C16_SendOnceNoRetry ==
  lib.fn = "sendEmail"
    => /\ \E i \in DOMAIN lib.s.ev :
            /\ Execs(lib.s.ev) = {i}
            /\ lib.s.ev[i].k = "call zoho_mail.zoho_mail-send-email"
       /\ IF lib.in.out.exit # 0
            THEN lib.r.kind = "throw"
            ELSE lib.r.kind = "return" /\ lib.r.val \in BOOLEAN

C16_Witness ==
  /\ lib.fn = "sendEmail"
  /\ lib.in.out.exit # 0
  /\ lib.r = Throw("Failed to send email")

\* C17: the proxy request primitive returns the data of the envelope when its
\* status code is 200, throws an error carrying the description for any
\* other code, and throws when the output has no JSON block.
C17_ProxyCallChecksStatus ==
  lib.fn = "proxyCall"
    => LET out == lib.in.out
       IN  IF out.exit = 0 /\ out.line = "object" /\ out.text # None
             THEN IF out.text[1].code = 200
                    THEN lib.r = Return(out.text[1].data)
                    ELSE lib.r.kind = "throw"
             ELSE (out.exit = 0 /\ out.line = "none") => lib.r.kind = "throw"

\* C18: with --debug, every send invocation of the run is preceded by its
\* debug line on standard error.
DebugLines(ev) == {i \in DOMAIN ev : ev[i].t = "err" /\ ev[i].k = "debug"}
C18_DebugFlagLogsRequests ==
  (run.cmd = "mail send" /\ run.opts.debug)
    => \A i \in Execs(run.ev) :
         run.ev[i].k = "call zoho_mail.zoho_mail-send-email"
           => \E j \in DebugLines(run.ev) : j < i

\* C19: a run reads the Config at most once, before anything else it does
\* with the store or the proxy, and writes it at most once, after every
\* external invocation.
ConfigReads(ev) == {i \in DOMAIN ev : ev[i].t = "cfg" /\ ev[i].k = "read"}
C19_ConfigReadOnceWrittenOnce ==
  ~AtPrompt
    => /\ Cardinality(ConfigReads(run.ev)) <= 1
       /\ Cardinality(ConfigWrites(run.ev)) <= 1
       /\ \A r \in ConfigReads(run.ev) :
            \A i \in Execs(run.ev) \cup ConfigWrites(run.ev) : r < i
       /\ \A w \in ConfigWrites(run.ev) : \A i \in Execs(run.ev) : i < w

\* C20: at most one invocation of the proxy is outstanding: the step after
\* the start of an invocation is its exit, so every invocation has ended
\* before the run does anything else.
C20_OneInvocationAtATime ==
  ~AtPrompt
    => \A i \in Execs(run.ev) :
         /\ i + 1 \in DOMAIN run.ev
         /\ run.ev[i + 1] = Event("exit", run.ev[i].k, run.ev[i].a)

\* a login that queries the status twice and then asks for the link
C20_Witness ==
  /\ run.cmd = "auth login"
  /\ Cardinality(Execs(run.ev)) = 3
  /\ \E i \in Execs(run.ev) : run.ev[i].k = "connect zoho_mail"

\* C21: the update commands, the mode each one stands for, and the id its
\* mode requires
ModeOf ==
  [c \in {"mail move", "mail flag", "mail unflag", "mail archive", "mail spam", "mail unspam",
          "mail mark-read", "mail mark-unread", "mail label", "mail unlabel"} |->
     CASE c = "mail move" -> "moveToFolder"
       [] c = "mail flag" -> "addFlag"
       [] c = "mail unflag" -> "removeFlag"
       [] c = "mail archive" -> "archive"
       [] c = "mail spam" -> "spam"
       [] c = "mail unspam" -> "notSpam"
       [] c = "mail mark-read" -> "markAsRead"
       [] c = "mail mark-unread" -> "markAsUnread"
       [] c = "mail label" -> "addTag"
       [] c = "mail unlabel" -> "removeTag"]
ClosedModes ==
  {"markAsRead", "markAsUnread", "moveToFolder", "addFlag", "removeFlag", "addTag",
   "removeTag", "archive", "unarchive", "spam", "notSpam"}
UpdateCalls(ev) == {i \in DOMAIN ev : ev[i].t = "api" /\ ev[i].k = "updateMessage"}
UpdateSent(ev) == \E i \in DOMAIN ev : ev[i].t = "exec" /\ ev[i].k = "proxy PUT"
LacksId(r) ==
  /\ ModeOf[r.cmd] \in {"moveToFolder", "addTag", "removeTag"}
  /\ (r.opts.id = None \/ r.opts.id = <<"">>)

\* C21: an update command calls updateMessage at most once, with the one mode
\* of the closed set that the command stands for; an update that is sent
\* carries the folder id (moveToFolder) or the label id (addTag, removeTag)
\* of the command line; with that id lacking nothing is sent and the run
\* fails.
C21_OneModeAndRequiredId ==
  run.cmd \in DOMAIN ModeOf
    => /\ Cardinality(UpdateCalls(run.ev)) <= 1
       /\ \A i \in UpdateCalls(run.ev) :
            /\ run.ev[i].a.mode = ModeOf[run.cmd]
            /\ run.ev[i].a.mode \in ClosedModes
            /\ UpdateSent(run.ev)
                 => /\ run.ev[i].a.mode = "moveToFolder"
                         => run.ev[i].a.folderId = run.opts.id /\ run.opts.id \notin {None, <<"">>}
                    /\ run.ev[i].a.mode \in {"addTag", "removeTag"}
                         => run.ev[i].a.tagId = run.opts.id /\ run.opts.id \notin {None, <<"">>}
       /\ LacksId(run) => (~UpdateSent(run.ev) /\ run.code = 1)
       /\ (~LacksId(run) /\ CheckFinds(run) /\ run.start.accountId # "")
            => (Cardinality(UpdateCalls(run.ev)) = 1 /\ UpdateSent(run.ev))

\* a move with its folder id, sent and accepted
C21_Witness ==
  /\ run.cmd = "mail move"
  /\ run.opts.id = <<"X1">>
  /\ UpdateSent(run.ev)
  /\ run.code = 0

Shows(icons, glyph) == \E i \in DOMAIN icons : icons[i] = glyph

\* C22: an email whose status is "0", false-equivalent or absent is shown
\* with the unread glyph, and one whose status is "1" without it, whatever
\* its other fields are.
C22_StatusNormalization ==
  lib.fn = "getEmailStatusIcon"
    => LET status == lib.in.status
       IN  /\ ( \/ status = [type |-> "string", v |-> "0"]
                \/ status = [type |-> "string", v |-> ""]
                \/ status = [type |-> "boolean", v |-> "false"]
                \/ status.type = "undefined" )
               => Shows(lib.r.val, "unread")
           /\ status = [type |-> "string", v |-> "1"] => ~Shows(lib.r.val, "unread")

\* C23: the attachment glyph is shown exactly when hasAttachment is the
\* boolean true, the string "1" or the string "true".
C23_AttachmentNormalization ==
  lib.fn = "getEmailStatusIcon"
    => ( Shows(lib.r.val, "attachment")
           <=> lib.in.hasAttachment \in { [type |-> "boolean", v |-> "true"],
                                          [type |-> "string", v |-> "1"],
                                          [type |-> "string", v |-> "true"] } )

\* the number 1 is not the string "1": no glyph
C23_Witness ==
  /\ lib.fn = "getEmailStatusIcon"
  /\ lib.in.hasAttachment = [type |-> "number", v |-> "1"]
  /\ lib.in.status.v = "1"
  /\ lib.r.val = <<"-">>

\* C30: the three indicators of the status column
IsUnread(e) ==
  e.status = [type |-> "string", v |-> "0"] \/ e.status2 = [type |-> "string", v |-> "0"]
IsFlagged(e) ==
  /\ e.flagid.type = "string"
  /\ e.flagid.v \notin {"", "flag_not_set", "0"}
HasAttachmentGlyph(e) ==
  \/ e.hasAttachment = [type |-> "boolean", v |-> "true"]
  \/ e.hasAttachment.type = "string" /\ e.hasAttachment.v \in {"1", "true"}

\* C30: the result is the glyphs of the indicators that are present, in the
\* order unread, flagged, attachment, and '-' exactly when none is present.
C30_IconsComposeInOrder ==
  lib.fn = "getEmailStatusIcon"
    => LET e == lib.in
           expected == (IF IsUnread(e) THEN <<"unread">> ELSE << >>)
                       \o (IF IsFlagged(e) THEN <<"flagged">> ELSE << >>)
                       \o (IF HasAttachmentGlyph(e) THEN <<"attachment">> ELSE << >>)
       IN  /\ lib.r.val = (IF expected = << >> THEN <<"-">> ELSE expected)
           /\ (lib.r.val = <<"-">>) <=> ~(IsUnread(e) \/ IsFlagged(e) \/ HasAttachmentGlyph(e))

\* unread by status2 only, flagged and with an attachment: all three glyphs
C30_Witness ==
  /\ lib.fn = "getEmailStatusIcon"
  /\ lib.in.status.v = "1"
  /\ lib.in.status2.v = "0"
  /\ lib.r.val = <<"unread", "flagged", "attachment">>

\* C24: `auth login` queries the connection status before it invokes the
\* proxy for anything else, and asks for the connect link only when the
\* check found no connection; connected, it asks for no link and exits 0;
\* not connected, it asks once and exits 1 exactly when no link came back.
Connects(ev) == {i \in DOMAIN ev : ev[i].t = "exec" /\ ev[i].k = "connect zoho_mail"}
LinkPrinted(out) == out.exit = 0 /\ \E i \in DOMAIN out.tokens : out.tokens[i].url # ""
C24_LoginChecksBeforeConnect ==
  run.cmd = "auth login"
    => /\ \E i \in StatusQueries(run.ev) : \A j \in Execs(run.ev) : i <= j
       /\ IF CheckFinds(run)
            THEN Connects(run.ev) = {} /\ run.code = 0
            ELSE /\ Cardinality(Connects(run.ev)) = 1
                 /\ \A c \in Connects(run.ev) : \A q \in StatusQueries(run.ev) : q < c
                 /\ run.code = (IF LinkPrinted(run.env.connect) THEN 0 ELSE 1)

\* no connection, and the connect command printed no link
C24_Witness ==
  /\ run.cmd = "auth login"
  /\ ~CheckFinds(run)
  /\ run.env.connect.exit = 0
  /\ ~LinkPrinted(run.env.connect)
  /\ run.code = 1

\* C25: the text of a piece of output
RECURSIVE TextOf(_)
TextOf(chars) == IF chars = << >> THEN "" ELSE Head(chars) \o TextOf(Tail(chars))
\* where a URL starts: at an 'https://' followed by a non-whitespace character
UrlStarts(chars) ==
  {i \in 1..(Len(chars) - 1) : chars[i] = "https://" /\ chars[i + 1] # " "}
\* the end of the run of non-whitespace that starts at i
RunEnd(chars, i) ==
  CHOOSE j \in i..Len(chars) :
    /\ \A k \in i..j : chars[k] # " "
    /\ (j = Len(chars) \/ chars[j + 1] = " ")
FirstUrl(chars) ==
  IF UrlStarts(chars) = {} THEN << >>
  ELSE LET i == CHOOSE m \in UrlStarts(chars) : \A n \in UrlStarts(chars) : m <= n
       IN  <<TextOf(SubSeq(chars, i, RunEnd(chars, i)))>>

\* C25: generateConnectLink returns the first https URL of the output (the
\* maximal run of non-whitespace from 'https://' on), none when the output
\* holds no URL, and none, without raising, when the invocation failed.
C25_FirstUrlOrNone ==
  lib.fn = "generateConnectLink"
    => /\ lib.r.kind = "return"
       /\ lib.r.val = (IF lib.in.exit # 0 THEN << >> ELSE FirstUrl(lib.in.chars))

\* two URLs in the output: the first one is the answer
C25_Witness ==
  /\ lib.fn = "generateConnectLink"
  /\ lib.in.exit = 0
  /\ lib.in.chars = <<"https://", "x", " ", "https://", "https://">>
  /\ lib.r = Return(<<"https://x">>)

\* C26: disconnectZoho returns true exactly when the disconnect invocation
\* exited without error and false otherwise; it never raises, invokes the
\* proxy once and leaves the Config as it was.
C26_DisconnectReportsOutcome ==
  lib.fn = "disconnectZoho"
    => /\ lib.r = Return(lib.in.out.exit = 0)
       /\ Cardinality(Execs(lib.s.ev)) = 1
       /\ ConfigWrites(lib.s.ev) = {}
       /\ lib.s.cfg = lib.in.before
       /\ config = lib.in.before

\* a successful disconnect with a Config that holds values: they stay
C26_Witness ==
  /\ lib.fn = "disconnectZoho"
  /\ lib.in.out.exit = 0
  /\ lib.in.before.accountId # ""
  /\ lib.r = Return(TRUE)
  /\ config.accountId # ""

\* C27: isConfigured() is true exactly when accountId and userId are both
\* non-empty, in every Config that setConfig and clearConfig calls lead to;
\* it is false for the Config clearConfig() leaves.
C27_IsConfiguredIffBothSet ==
  lib.fn = "isConfigured"
    => /\ lib.r.kind = "return"
       /\ lib.r.val <=> (lib.in.before.accountId # "" /\ lib.in.before.userId # "")
       /\ lib.in.before = [region |-> "zoho.com", accountId |-> "",
                           userId |-> "", defaultFolder |-> "Inbox"]
            => lib.r.val = FALSE

\* only the account id is set: not configured
C27_Witness ==
  /\ lib.fn = "isConfigured"
  /\ lib.in.before.accountId = "X"
  /\ lib.in.before.userId = ""
  /\ lib.r = Return(FALSE)


(***************************************************************************)
(* ensureAccountId                                                         *)
(***************************************************************************)
\* the runs that reach ensureAccountId: the mail and label commands and the
\* auto-detecting folder commands, once commander has accepted the command
\* line and the connection check has found a connection
EnsuresAccountId(r) ==
  /\ r.cmd \notin AuthCommands \cup {"none"}
  /\ ~("file" \in DOMAIN r.opts /\ r.opts.file = "folders.ts")
  /\ ~Refused(r)
  /\ ~Printed(r.ev, "uncaught")
  /\ CheckFinds(r)
\* the API calls that are logged with the account id they were given
AccountIdsUsed(ev) ==
  {ev[i].a : i \in {j \in DOMAIN ev : ev[j].t = "api" /\ ev[j].k \in {"getLabels", "getFolders"}}}

\* C28: in a command that reaches ensureAccountId, a non-empty Config
\* accountId is used as it is, with no detection call and no Config write; an
\* empty one leads to exactly one detection call, whose result, if there is
\* one, is written to Config once and is the id the rest of the command
\* uses; a failed detection ends the command with exit code 1, the Config as
\* it was (accountId still empty), the message "Could not detect account ID"
\* and nothing after it but printed lines: no API call, no process, no
\* Config access
C28_EnsureAccountId ==
  EnsuresAccountId(run)
    => /\ AccountIdsUsed(run.ev) \subseteq {config.accountId}
       /\ run.start.accountId # ""
            => /\ Detections(run.ev) = {}
               /\ ConfigWrites(run.ev) = {}
               /\ config = run.start
       /\ run.start.accountId = ""
            => /\ Cardinality(Detections(run.ev)) = 1
               /\ Cardinality(Detected(run.ev)) + Cardinality(DetectionFailures(run.ev)) = 1
               /\ \A v \in Detected(run.ev) :
                     /\ Cardinality(ConfigWrites(run.ev)) = 1
                     /\ config = [run.start EXCEPT !.accountId = v]
               /\ \A i \in DetectionFailures(run.ev) :
                     /\ run.code = 1
                     /\ config = run.start
                     /\ ConfigWrites(run.ev) = {}
                     /\ PrintedMsg(run.ev, "error", "Could not detect account ID")
                     /\ ApiCalls(run.ev) = Detections(run.ev)
                     /\ \A j \in DOMAIN run.ev : j > i => run.ev[j].t = "out"

\* a mail command with no account id stored whose detection fails
C28_Witness ==
  /\ run.cmd = "mail list"
  /\ EnsuresAccountId(run)
  /\ run.start.accountId = ""
  /\ DetectionFailures(run.ev) # {}
  /\ run.code = 1
  /\ config.accountId = ""

(***************************************************************************)
(* The user id of auth login and of the pdauth commands                    *)
(***************************************************************************)
\* the pdauth commands that are given the user id
UserExecs(ev) ==
  {i \in DOMAIN ev :
     /\ ev[i].t = "exec"
     /\ ev[i].k \in {"status --json", "status", "connect zoho_mail",
                      "disconnect zoho_mail --force", "call zoho_mail.zoho_mail-send-email"}}
\* the Config userId while the run's pdauth commands are issued: login stores
\* it first, no other command changes it before its last pdauth command
UserIdAtExec == IF run.cmd = "auth login" THEN config.userId ELSE run.start.userId

\* C29: after auth login, whatever its outcome, the Config userId is not
\* empty: it is the --user value when a (non-empty) one was given, what it
\* was when that was not empty, and the built-in default otherwise; and every
\* pdauth command of every run is given a non-empty user id, the Config
\* userId, or "default" exactly when the Config userId is empty
C29_UserIdNeverEmpty ==
  /\ run.cmd = "auth login"
       => /\ config.userId # ""
          /\ config.userId = IF Truthy(run.opts.user) THEN run.opts.user[1]
                             ELSE IF run.start.userId # "" THEN run.start.userId
                             ELSE DefaultUser
  /\ \A i \in UserExecs(run.ev) :
       /\ run.ev[i].a # ""
       /\ run.ev[i].a = IF UserIdAtExec # "" THEN UserIdAtExec ELSE "default"

\* a first login without --user whose link generation fails
C29_Witness ==
  /\ run.cmd = "auth login"
  /\ run.opts.user = None
  /\ run.start.userId = ""
  /\ run.code = 1
  /\ config.userId = DefaultUser
  /\ \E i \in UserExecs(run.ev) : run.ev[i].a = DefaultUser

====
